---- MODULE Spec2Model ----
(***************************************************************************)
(* Batched B-spline kernels of src/models/layers/spline.py:                *)
(* extend_grid, B_batch, coef2curve and curve2coef, modelled as operators  *)
(* over tensors, and a caller that applies them to a small workspace.      *)
(*                                                                         *)
(* Numbers.  A tensor entry is a pair <<n, d>>.  d > 0 is the rational n/d *)
(* in lowest terms; d = 0 is an IEEE special: <<0,0>> NaN, <<1,0>> +inf,   *)
(* <<-1,0>> -inf.  Arithmetic is exact on the finite values (rounding is   *)
(* not modelled) and follows IEEE 754 on the specials.                     *)
(*                                                                         *)
(* Tensors.  A 2-D tensor is a sequence of rows, a 3-D tensor a sequence   *)
(* of 2-D tensors; index 1 is Python's index 0.                            *)
(***************************************************************************)
EXTENDS Integers, Sequences, FiniteSets, TLC

\* ------------------------------------------------------------------ bounds
\* spline orders 0..MaxK; a caller extends a grid by at most MaxK knots a side
MaxK == 2

\* knots per row of a starting grid, 2..MaxG, with knot values 0..MaxG - 1
MaxG == 3

\* rows of a batched grid, columns of a sample tensor and rows of a
\* coefficient tensor, 1..MaxS each
MaxS == 2

\* samples per spline, 1..MaxBatch
MaxBatch == 2

\* output channels of a coefficient tensor, 1..MaxOut
MaxOut == 2

\* entries on the last axis of a coefficient tensor, 1..MaxCoef
MaxCoef == 3

\* ------------------------------------------------------- float arithmetic
Abs(n) == IF n < 0 THEN -n ELSE n

Sign(n) == IF n < 0 THEN -1 ELSE IF n > 0 THEN 1 ELSE 0

RECURSIVE GCD(_, _)
GCD(a, b) == IF b = 0 THEN a ELSE GCD(b, a % b)

\* the float n/d, d # 0, in lowest terms with a positive denominator
Q(n, d) ==
    IF d = 1 THEN <<n, 1>>
    ELSE LET g == GCD(Abs(n), Abs(d))
         IN  <<Sign(d) * (n \div g), Abs(d) \div g>>

Num(n) == <<n, 1>>

NaN == <<0, 0>>

PosInf == <<1, 0>>

NegInf == <<-1, 0>>

Zero == <<0, 1>>

One == <<1, 1>>

IsNaN(a) == a = NaN

IsInf(a) == a[2] = 0 /\ a[1] # 0

IsFinite(a) == a[2] > 0

\* a + b
FAdd(a, b) ==
    IF a[2] > 0 /\ b[2] > 0
    THEN (IF a[2] = b[2] THEN Q(a[1] + b[1], a[2])
          ELSE LET g == GCD(a[2], b[2])
               IN  Q(a[1] * (b[2] \div g) + b[1] * (a[2] \div g), (a[2] \div g) * b[2]))
    ELSE IF IsNaN(a) \/ IsNaN(b) THEN NaN
    ELSE IF IsInf(a) /\ IsInf(b) THEN (IF a = b THEN a ELSE NaN)
    ELSE IF IsInf(a) THEN a
    ELSE b

FNeg(a) == <<-a[1], a[2]>>

\* a - b
FSub(a, b) == FAdd(a, FNeg(b))

\* a * b
FMul(a, b) ==
    IF a[2] > 0 /\ b[2] > 0
    THEN (IF a[2] = 1 /\ b[2] = 1 THEN <<a[1] * b[1], 1>>
          ELSE LET g1 == GCD(Abs(a[1]), b[2])
                   g2 == GCD(Abs(b[1]), a[2])
               IN  <<(a[1] \div g1) * (b[1] \div g2), (a[2] \div g2) * (b[2] \div g1)>>)
    ELSE IF IsNaN(a) \/ IsNaN(b) THEN NaN
    ELSE IF a[1] = 0 \/ b[1] = 0 THEN NaN
    ELSE <<Sign(a[1]) * Sign(b[1]), 0>>

\* 1 / b for finite b # 0
FInv(b) == <<Sign(b[1]) * b[2], Abs(b[1])>>

\* a / b   (the divisors of this module are differences, so a zero divisor is +0.0)
FDiv(a, b) ==
    IF a[2] > 0 /\ b[2] > 0
    THEN (IF b[1] = 0 THEN <<Sign(a[1]), 0>> ELSE FMul(a, FInv(b)))
    ELSE IF IsNaN(a) \/ IsNaN(b) THEN NaN
    ELSE IF IsInf(a) THEN (IF IsInf(b) THEN NaN
                           ELSE <<a[1] * (IF b[1] < 0 THEN -1 ELSE 1), 0>>)
    ELSE Zero

\* a < b
FLt(a, b) ==
    IF a[2] > 0 /\ b[2] > 0 THEN a[1] * b[2] < b[1] * a[2]
    ELSE IF IsNaN(a) \/ IsNaN(b) THEN FALSE
    ELSE IF IsInf(a) /\ IsInf(b) THEN a[1] < b[1]
    ELSE IF IsInf(a) THEN a[1] < 0
    ELSE b[1] > 0

\* a >= b
FGe(a, b) == ~IsNaN(a) /\ ~IsNaN(b) /\ ~FLt(a, b)

\* Python's bool as a number
FBool(p) == IF p THEN One ELSE Zero

\* ------------------------------------------------------------ tensor shapes
Dim1(t) == Len(t)

Dim2(t) == Len(t[1])

Dim3(t) == Len(t[1][1])

\* torch's broadcasting of one axis: the sizes agree or one of them is 1
Broadcastable(a, b) == a = b \/ a = 1 \/ b = 1

BSize(a, b) == IF a = 1 THEN b ELSE a

\* the index into an axis of size n that broadcasting reads for output index j
Pick(n, j) == IF n = 1 THEN 1 ELSE j

\* the function f of domain 1..n as the sequence <<f[1], ..., f[n]>>
AsSeq(f) == <<>> \o f

\* a call's outcome: an exception, or the returned tensor and its dtype
\* ("bool" or "float"; a bool tensor holds True as 1 and False as 0)
Raise == [err |-> TRUE, val |-> <<>>, dtype |-> ""]

Return(v, dtype) == [err |-> FALSE, val |-> v, dtype |-> dtype]

\* ------------------------------------------------------------- extend_grid
\* variants of h that the extend_grid properties tell from the code: the
\* range divided by the number of knots, and the range up to the last but one
extend_h_per_knot(grid) ==
    AsSeq([s \in 1..Len(grid) |->
        FDiv(FSub(grid[s][Len(grid[s])], grid[s][1]), Num(Len(grid[s])))])

extend_h_short(grid) ==
    AsSeq([s \in 1..Len(grid) |->
        FDiv(FSub(grid[s][Len(grid[s]) - 1], grid[s][1]), Num(Len(grid[s]) - 1))])

\* h = (grid[:, [-1]] - grid[:, [0]]) / (grid.shape[1] - 1), one step per row
extend_h(grid) ==
    AsSeq([s \in 1..Len(grid) |->
        FDiv(FSub(grid[s][Len(grid[s])], grid[s][1]), Num(Len(grid[s]) - 1))])

\* one pass of the loop body: prepend first - h, then append last + h
extend_step(grid, h) ==
    AsSeq([s \in 1..Len(grid) |->
        LET left == <<FSub(grid[s][1], h[s])>> \o grid[s]
        IN  left \o <<FAdd(left[Len(left)], h[s])>>])

\* variant that copies the grid before the loop, so that what it returns is
\* a new tensor for n = 0 too
RECURSIVE extend_loop_clone(_, _, _)
extend_loop_clone(ref, h, n) ==
    IF n = 0 THEN [obj |-> "new", val |-> ref.val]
    ELSE extend_loop_clone([obj |-> "new", val |-> extend_step(ref.val, h)], h, n - 1)

\* for i in range(n): the body rebinds the local name to the tensor torch.cat
\* allocates; with n = 0 the name still refers to the caller's tensor
RECURSIVE extend_loop(_, _, _)
extend_loop(ref, h, n) ==
    IF n = 0 THEN ref
    ELSE extend_loop([obj |-> "new", val |-> extend_step(ref.val, h)], h, n - 1)

\* extend_grid(grid, k_extend): the returned reference (object and contents)
extend_grid_ref(grid, k_extend) ==
    extend_loop([obj |-> "grid", val |-> grid], extend_h(grid), k_extend)

extend_grid(grid, k_extend) == extend_grid_ref(grid, k_extend).val

\* ----------------------------------------------------------------- B_batch
\* the substitute torch.nan_to_num writes for +inf (the dtype's greatest finite value)
FloatMax == 1000000

\* variant without the substitution: the entry as the division left it
nan_to_num_omitted(v) == v

\* torch.nan_to_num(value) on one entry: 0 for NaN, +-FloatMax for +-inf
nan_to_num_entry(v) ==
    IF IsNaN(v) THEN Zero
    ELSE IF v = PosInf THEN Num(FloatMax)
    ELSE IF v = NegInf THEN Num(-FloatMax)
    ELSE v

nan_to_num(value) ==
    AsSeq([i \in 1..Len(value) |-> AsSeq([j \in 1..Len(value[i]) |->
        AsSeq([c \in 1..Len(value[i][j]) |-> nan_to_num_entry(value[i][j][c])])])])

\* variant that drops one more entry of the last axis
n_basis_short(G, k) == IF G - k - 2 > 0 THEN G - k - 2 ELSE 0

\* number of entries on the last axis of the order-k value: the slices
\* grid[:, :, :-(k + 1)] (and grid[:, :, :-1] for k = 0) have G - k - 1 entries
n_basis(G, k) == IF G - k - 1 > 0 THEN G - k - 1 ELSE 0

\* the two knot differences entry c of the order-k value divides by
Denom1(t, k, c) == FSub(t[c + k], t[c])

Denom2(t, k, c) == FSub(t[c + k + 1], t[c + 1])

\* variant whose indicator is closed on the right, 1[t_c <= x <= t_(c+1)]
basis_entry_closed(xv, t, k, b, c) ==
    IF k = 0
    THEN FBool(FGe(xv, t[c]) /\ ~FLt(t[c + 1], xv))
    ELSE FAdd(FMul(FDiv(FSub(xv, t[c]), Denom1(t, k, c)), b[c]),
              FMul(FDiv(FSub(t[c + k + 1], xv), Denom2(t, k, c)), b[c + 1]))

\* entry c for sample xv and knots t: the indicator for k = 0, else the
\* Cox-de Boor step on entries c and c + 1 of the order-(k-1) row b
basis_entry(xv, t, k, b, c) ==
    IF k = 0
    THEN FBool(FGe(xv, t[c]) /\ FLt(xv, t[c + 1]))
    ELSE FAdd(FMul(FDiv(FSub(xv, t[c]), Denom1(t, k, c)), b[c]),
              FMul(FDiv(FSub(t[c + k + 1], xv), Denom2(t, k, c)), b[c + 1]))

\* `value` before nan_to_num: x (B, Sx) unsqueezed to (B, Sx, 1) against grid
\* (S, G) unsqueezed to (1, S, G), so x's axis 1 broadcasts with grid's axis 0
basis_value(x, grid, k, B_km1) ==
    AsSeq([i \in 1..Dim1(x) |-> AsSeq([j \in 1..BSize(Dim2(x), Dim1(grid)) |->
        LET xv == x[i][Pick(Dim2(x), j)]
            t  == grid[Pick(Dim1(grid), j)]
            b  == IF k = 0 THEN <<>> ELSE B_km1[i][j]
        IN  AsSeq([c \in 1..n_basis(Len(t), k) |-> basis_entry(xv, t, k, b, c)])])])

\* B_batch(x, grid, k) for float x and grid.  For k = 0 `value` is the product
\* of two comparisons, a bool tensor, and nan_to_num returns a bool tensor; for
\* k > 0 the float operands make it a float tensor
RECURSIVE B_batch(_, _, _)
B_batch(x, grid, k) ==
    IF ~Broadcastable(Dim2(x), Dim1(grid)) THEN Raise
    ELSE IF k = 0 THEN Return(nan_to_num(basis_value(x, grid, 0, <<>>)), "bool")
    ELSE LET B_km1 == B_batch(x, grid, k - 1).val
         IN  Return(nan_to_num(basis_value(x, grid, k, B_km1)), "float")

\* -------------------------------------------------------------- coef2curve
\* f[1] + ... + f[n], left to right
RECURSIVE FSum(_, _)
FSum(f, n) == IF n = 0 THEN Zero ELSE FAdd(FSum(f, n - 1), f[n])

\* variant with the output subscripts 'ilj': out channels before splines
einsum_ilj(b, coef) ==
    LET J  == Dim2(b)
        K  == Dim3(b)
        Jc == Dim1(coef)
        Kc == Dim3(coef)
    IN  IF ~Broadcastable(J, Jc) \/ ~Broadcastable(K, Kc) THEN Raise
        ELSE Return(
            AsSeq([i \in 1..Dim1(b) |-> AsSeq([l \in 1..Dim2(coef) |->
                AsSeq([j \in 1..BSize(J, Jc) |->
                    FSum([c \in 1..BSize(K, Kc) |->
                            FMul(b[i][Pick(J, j)][Pick(K, c)],
                                 coef[Pick(Jc, j)][l][Pick(Kc, c)])],
                         BSize(K, Kc))])])]),
            "float")

\* torch.einsum('ijk,jlk->ijl', b, coef) for float operands: b is (I, J, K),
\* coef is (Jc, L, Kc).  einsum broadcasts every subscript, the summed one too:
\* two sizes of one letter must agree or one of them be 1, anything else raises
einsum(b, coef) ==
    LET J  == Dim2(b)
        K  == Dim3(b)
        Jc == Dim1(coef)
        Kc == Dim3(coef)
    IN  IF ~Broadcastable(J, Jc) \/ ~Broadcastable(K, Kc) THEN Raise
        ELSE Return(
            AsSeq([i \in 1..Dim1(b) |-> AsSeq([j \in 1..BSize(J, Jc) |->
                AsSeq([l \in 1..Dim2(coef) |->
                    FSum([c \in 1..BSize(K, Kc) |->
                            FMul(b[i][Pick(J, j)][Pick(K, c)],
                                 coef[Pick(Jc, j)][l][Pick(Kc, c)])],
                         BSize(K, Kc))])])]),
            "float")

\* coef2curve(x_eval, grid, coef, k) for a float coef.  For k = 0 b_splines is
\* a bool tensor: whether einsum then promotes it to coef's dtype or raises on
\* the two dtypes depends on the torch build and on the path einsum takes, so
\* `promotes` is left to the environment
coef2curve(x_eval, grid, coef, k, promotes) ==
    LET b_splines == B_batch(x_eval, grid, k)
    IN  IF b_splines.err THEN Raise
        ELSE IF b_splines.dtype # "float" /\ ~promotes THEN Raise
        ELSE einsum(b_splines.val, coef)

\* -------------------------------------------------------------- curve2coef
\* Python's a == b on a torch.device object and a str: torch.device compares
\* equal only to a torch.device (its rich comparison returns NotImplemented for
\* anything else, as str's does), so Python falls back to identity
PyDevice(type) == [class |-> "torch.device", val |-> type]

PyStr(text) == [class |-> "str", val |-> text]

PyEq(a, b) == a.class = b.class /\ a.val = b.val

\* driver='gelsy' if device == 'cpu' else 'gels', with device = mat.device
lstsq_driver(mat_device) ==
    IF PyEq(PyDevice(mat_device), PyStr("cpu")) THEN "gelsy" ELSE "gels"

\* Gaussian elimination, exact, on the rows M of an augmented system of n
\* unknowns (each row: n coefficients, then the right-hand side).  rank: every
\* column has a pivot (full column rank); exact: the rows left without a
\* pivot read 0 = 0; x: the solution by back substitution
RECURSIVE GaussSolve(_, _)
GaussSolve(M, n) ==
    IF n = 0
    THEN [rank |-> TRUE, exact |-> \A i \in 1..Len(M) : M[i][1] = Zero, x |-> <<>>]
    ELSE
      LET piv == {p \in 1..Len(M) : M[p][1] # Zero}
      IN  IF piv = {} THEN [rank |-> FALSE, exact |-> FALSE, x |-> <<>>]
          ELSE
            LET p    == CHOOSE q \in piv : \A r \in piv : q <= r
                prow == M[p]
                elim(row) ==
                    LET f == FDiv(row[1], prow[1])
                    IN  AsSeq([c \in 1..n |-> FSub(row[c + 1], FMul(f, prow[c + 1]))])
                sub  == AsSeq([i \in 1..(Len(M) - 1) |->
                                elim(M[IF i < p THEN i ELSE i + 1])])
                rec  == GaussSolve(sub, n - 1)
            IN  IF ~rec.rank THEN rec
                ELSE
                  LET tail == FSum([c \in 1..(n - 1) |-> FMul(prow[c + 1], rec.x[c])],
                                   n - 1)
                  IN  [rank  |-> TRUE,
                       exact |-> rec.exact,
                       x     |-> <<FDiv(FSub(prow[n + 1], tail), prow[1])>> \o rec.x]

\* the least-squares solution of A c = y for A (m, n) of full column rank: the
\* solution of A c = y where there is one (the residual is 0), else that of the
\* normal equations (A^T A) c = A^T y; ok is FALSE when A has not full column rank
lstsq_full_rank(A, y) ==
    LET m == Len(A)
        n == Len(A[1])
        direct == GaussSolve(AsSeq([i \in 1..m |-> A[i] \o <<y[i]>>]), n)
        normal == AsSeq([r \in 1..n |-> AsSeq([c \in 1..(n + 1) |->
                    IF c <= n
                    THEN FSum([i \in 1..m |-> FMul(A[i][r], A[i][c])], m)
                    ELSE FSum([i \in 1..m |-> FMul(A[i][r], y[i])], m)])])
    IN  IF ~direct.rank THEN [ok |-> FALSE, x |-> <<>>]
        ELSE IF direct.exact THEN [ok |-> TRUE, x |-> direct.x]
        ELSE [ok |-> TRUE, x |-> GaussSolve(normal, n).x]

\* torch.linalg.lstsq(mat, y_eval, driver).solution[:, :, :, 0] for mat
\* (in_dim, out_dim, batch, n_coef), the same (batch, n_coef) matrix for every
\* out channel, and y (in_dim, out_dim, batch, 1).  Where the matrix has full
\* column rank both drivers return the unique least-squares solution; elsewhere
\* the row is left empty: 'gelsy' returns the minimum-norm solution there and
\* 'gels' requires full rank, and neither value is modelled
lstsq_solution(mat, y) ==
    AsSeq([j \in 1..Len(mat) |-> AsSeq([l \in 1..Len(mat[j]) |->
        LET sol == lstsq_full_rank(mat[j][l], y[j][l])
        IN  IF sol.ok THEN sol.x ELSE <<>>])])

\* curve2coef(x_eval, y_eval, grid, k) for n_coef = G - k - 1 >= 1 and a float
\* y_eval of in_dim columns (y_eval.shape[1] = x_eval.shape[1])
curve2coef(x_eval, y_eval, grid, k) ==
    LET batch   == Dim1(x_eval)
        in_dim  == Dim2(x_eval)
        out_dim == Dim3(y_eval)
        n_coef  == Len(grid[1]) - k - 1
        b       == B_batch(x_eval, grid, k)
    IN  IF b.err THEN Raise
        \* .expand(in_dim, out_dim, batch, n_coef) of (J, 1, batch, n_coef):
        \* an axis that is not 1 must already have the requested size
        ELSE IF Dim2(b.val) # in_dim /\ Dim2(b.val) # 1 THEN Raise
        \* lstsq: mat must have the dtype of y_eval, a floating-point one
        ELSE IF b.dtype # "float" THEN Raise
        \* lstsq: mat and y_eval.permute(1, 2, 0) must have as many rows
        ELSE IF Dim1(y_eval) # batch THEN Raise
        ELSE
          LET mat == AsSeq([j \in 1..in_dim |-> AsSeq([l \in 1..out_dim |->
                        AsSeq([i \in 1..batch |-> AsSeq([c \in 1..n_coef |->
                            b.val[i][Pick(Dim2(b.val), j)][c]])])])])
              y   == AsSeq([j \in 1..in_dim |-> AsSeq([l \in 1..out_dim |->
                        AsSeq([i \in 1..batch |-> y_eval[i][j][l]])])])
          IN  Return(lstsq_solution(mat, y), "float")

\* ------------------------------------------------------------------ inputs
\* knot rows: every non-decreasing row of n knots over 0..MaxG - 1 (uniform,
\* non-uniform and with repeated knots)
RECURSIVE RowsOfLen(_)
RowsOfLen(n) ==
    IF n = 1 THEN {<<Num(v)>> : v \in 0..(MaxG - 1)}
    ELSE {Append(r[1], Num(r[2])) :
            r \in {q \in RowsOfLen(n - 1) \X (0..(MaxG - 1)) : q[1][n - 1][1] <= q[2]}}

Rows == UNION {RowsOfLen(n) : n \in 2..MaxG}

\* sample values: the halves from -1/2 to MaxG - 1/2
XVals == {Q(n, 2) : n \in -1..(2 * MaxG - 1)}

\* S uniform rows of G knots: row j starts at j - 1 and has step j
GridOf(S, G) ==
    AsSeq([j \in 1..S |-> AsSeq([i \in 1..G |-> Num((j - 1) + (i - 1) * j)])])

\* B samples for each of Sx splines: sample b of spline j is the middle of the
\* b-th interval to the left of the second knot of row j of GridOf
SamplesOf(B, Sx) ==
    AsSeq([b \in 1..B |->
        AsSeq([j \in 1..Sx |-> Q(2 * (j - 1) + j * (3 - 2 * b), 2)])])

\* a coefficient tensor (Sc, O, Cc) whose entries differ along every axis
CoefOf(Sc, O, Cc) ==
    AsSeq([j \in 1..Sc |-> AsSeq([l \in 1..O |-> AsSeq([c \in 1..Cc |->
        Num(((2 * j + 3 * l + c) % 5) - 2)])])])

Devices == {"cpu", "cuda"}

\* ------------------------------------------------------------------- state
VARIABLES
    k,       \* the spline order the caller works with
    x,       \* the caller's samples, (batch, in_dim)
    cshape,  \* the first two axes <<Sc, O>> of the caller's coefficient tensors
    grid,    \* the caller's grid, (in_dim, G); rebound by ExtendGrid
    grid0,   \* the grid the caller started from
    ext,     \* the sum of the k_extend applied to grid0 so far
    call,    \* the last call: its arguments and its outcome
    src      \* the coef2curve call whose result the last curve2coef call was given

vars == <<k, x, cshape, grid, grid0, ext, call, src>>

NoCall ==
    [op |-> "none", grid |-> <<>>, k_extend |-> 0, coef |-> <<>>, y_eval |-> <<>>,
     device |-> "", err |-> FALSE, ret |-> <<>>, dtype |-> "", obj |-> "",
     levels |-> <<>>, driver |-> ""]

InitRest ==
    /\ k \in 0..MaxK
    /\ grid = grid0
    /\ ext = 0
    /\ call = NoCall
    /\ src = NoCall

\* one spline, one sample: any knot row, any sample value
InitGrid ==
    /\ grid0 \in {<<r>> : r \in Rows}
    /\ x \in {<<<<v>>>> : v \in XVals}
    /\ cshape = <<1, 1>>
    /\ InitRest

\* batches: S two-knot rows, B samples of Sx splines, coefficients for Sc
\* splines and O output channels; either the three spline axes agree, or they
\* are any three sizes and the batch and the output channels are the largest
Init ==
    /\ \E S \in 1..MaxS, Sx \in 1..MaxS, Sc \in 1..MaxS,
          B \in 1..MaxBatch, O \in 1..MaxOut :
            /\ (S = Sx /\ Sx = Sc) \/ (B = MaxBatch /\ O = MaxOut)
            /\ grid0 = GridOf(S, 2)
            /\ x = SamplesOf(B, Sx)
            /\ cshape = <<Sc, O>>
    /\ InitRest

\* ----------------------------------------------------------------- actions
\* The four functions keep no state, so what a call returns does not depend on
\* the calls made before it.  The caller follows the module's data flow: it
\* pads its grid, any number of times, and then evaluates on the padded grid.
Padding == call.op \in {"none", "extend_grid"}

\* grid = extend_grid(grid, k_extend)
ExtendGrid(k_extend) ==
    /\ Padding
    /\ ext + k_extend <= MaxK
    /\ LET r == extend_grid_ref(grid, k_extend)
       IN  /\ call' = [NoCall EXCEPT !.op = "extend_grid", !.grid = grid,
                           !.k_extend = k_extend, !.ret = r.val, !.dtype = "float",
                           !.obj = r.obj]
           /\ grid' = r.val
    /\ ext' = ext + k_extend
    /\ src' = NoCall
    /\ UNCHANGED <<k, x, cshape, grid0>>

\* B_batch(x, grid, k); levels records what each recursive call returned,
\* levels[m + 1] for order m
BBatch ==
    /\ Padding
    /\ LET r == B_batch(x, grid, k)
       IN  call' = [NoCall EXCEPT !.op = "B_batch", !.grid = grid, !.err = r.err,
                        !.ret = r.val, !.dtype = r.dtype,
                        !.obj = IF r.err THEN "" ELSE "new",
                        !.levels = AsSeq([m \in 1..(k + 1) |->
                                            B_batch(x, grid, m - 1).val])]
    /\ src' = NoCall
    /\ UNCHANGED <<k, x, cshape, grid, grid0, ext>>

\* coef2curve(x, grid, coef, k) for a coefficient tensor of Cc entries per
\* spline, on a torch whose einsum promotes a bool operand or does not
Coef2Curve(Cc, promotes) ==
    /\ Padding
    /\ LET coef == CoefOf(cshape[1], cshape[2], Cc)
           r    == coef2curve(x, grid, coef, k, promotes)
       IN  call' = [NoCall EXCEPT !.op = "coef2curve", !.grid = grid, !.coef = coef,
                        !.err = r.err, !.ret = r.val, !.dtype = r.dtype,
                        !.obj = IF r.err THEN "" ELSE "new"]
    /\ src' = NoCall
    /\ UNCHANGED <<k, x, cshape, grid, grid0, ext>>

\* curve2coef(x, y_eval, grid, k) on the curve the preceding coef2curve call
\* returned, with the tensors living on `device`
Curve2Coef(device) ==
    /\ call.op = "coef2curve"
    /\ ~call.err
    /\ Dim2(call.ret) = Dim2(x)
    /\ Len(grid[1]) - k - 1 >= 1
    /\ LET r == curve2coef(x, call.ret, grid, k)
       IN  call' = [NoCall EXCEPT !.op = "curve2coef", !.grid = grid,
                        !.y_eval = call.ret, !.device = device, !.err = r.err,
                        !.ret = r.val, !.dtype = r.dtype,
                        !.obj = IF r.err THEN "" ELSE "new",
                        !.driver = lstsq_driver(device)]
    /\ src' = call
    /\ UNCHANGED <<k, x, cshape, grid, grid0, ext>>

\* what einsum may do with a bool operand; with float operands (k >= 1) there
\* is nothing to promote
Promotions == IF k = 0 THEN BOOLEAN ELSE {TRUE}

\* a caller of all four functions
Next ==
    \/ \E k_extend \in 0..MaxK : ExtendGrid(k_extend)
    \/ BBatch
    \/ \E Cc \in 1..MaxCoef, promotes \in Promotions : Coef2Curve(Cc, promotes)
    \/ \E device \in Devices : Curve2Coef(device)

Spec == Init /\ [][Next]_vars

\* a caller that pads a grid and evaluates the basis on it
NextGrid ==
    \/ \E k_extend \in 0..MaxK : ExtendGrid(k_extend)
    \/ BBatch

SpecGrid == InitGrid /\ [][NextGrid]_vars

\* ============================================================== properties
\* helpers of the properties
Knots(g) == Len(g[1])

\* constant spacing between consecutive knots
Uniform(t) == \A i \in 1..(Len(t) - 1) : FSub(t[i + 1], t[i]) = FSub(t[2], t[1])

Increasing(t) == \A i \in 1..(Len(t) - 1) : FLt(t[i], t[i + 1])

Repeated(t) == \E i \in 1..(Len(t) - 1) : t[i] = t[i + 1]

RECURSIVE Total(_)
Total(row) == IF row = <<>> THEN Zero ELSE FAdd(row[1], Total(Tail(row)))

\* B_batch returned a tensor for a grid long enough for the order
BasisReturned == call.op = "B_batch" /\ ~call.err /\ Knots(call.grid) >= k + 2

InSupport ==
    /\ call.op = "B_batch"
    /\ ~call.err
    /\ Uniform(grid0[1])
    /\ Increasing(grid0[1])
    /\ ext = k
    /\ call.grid = extend_grid(grid0, k)
    /\ FGe(x[1][1], grid0[1][1])
    /\ FLt(x[1][1], grid0[1][Knots(grid0)])

\* C2: partition of unity.  On a uniform strictly increasing grid extended by
\* k_extend = k, for a sample in [first knot, last knot) of the original grid,
\* the basis values sum to 1; for k = 0 one entry is 1 and all others are 0.
C2_PartitionOfUnity ==
    InSupport =>
        LET b == call.ret[1][1]
        IN  /\ Total(b) = One
            /\ k = 0 => /\ Cardinality({c \in 1..Len(b) : b[c] = One}) = 1
                        /\ \A c \in 1..Len(b) : b[c] \in {Zero, One}

C2_Witness ==
    /\ InSupport
    /\ k = MaxK
    /\ Cardinality({c \in 1..Len(call.ret[1][1]) : call.ret[1][1][c] # Zero}) = k + 1

\* ---------------------------------------------------------------------- C4
\* C4: extend_grid returns G + 2 * k_extend knots per row: the G knots of the
\* input at positions k_extend + 1 .. k_extend + G (counting from 1), and j
\* steps of h = (last - first) / (G - 1) below the first and above the last
\* knot at the positions j to the left and to the right of them.
C4_ExtendedKnots ==
    call.op = "extend_grid" =>
        /\ Len(call.ret) = Len(call.grid)
        /\ \A s \in 1..Len(call.grid) :
            LET t  == call.grid[s]
                G  == Len(t)
                ke == call.k_extend
                h  == FDiv(FSub(t[G], t[1]), Num(G - 1))
                r  == call.ret[s]
            IN  /\ Len(r) = G + 2 * ke
                /\ \A i \in 1..G : r[ke + i] = t[i]
                /\ \A j \in 1..ke :
                    /\ r[ke + 1 - j] = FSub(t[1], FMul(Num(j), h))
                    /\ r[ke + G + j] = FAdd(t[G], FMul(Num(j), h))

C4_Witness ==
    /\ call.op = "extend_grid"
    /\ call.k_extend = MaxK
    /\ ~Uniform(call.grid[1])
    /\ Knots(call.grid) = MaxG
    /\ call.ret[1][1] # call.ret[1][2]

\* ---------------------------------------------------------------------- C5
\* C5: additive padding.  Whatever k_extend the caller padded a uniform grid
\* with, one after the other, the grid it holds is the starting grid padded
\* once by their sum.
C5_AdditivePadding ==
    Uniform(grid0[1]) => grid = extend_grid(grid0, ext)

C5_Witness ==
    /\ call.op = "extend_grid"
    /\ call.k_extend = 1
    /\ ext = 2
    /\ call.grid # grid0
    /\ Uniform(grid0[1])
    /\ Increasing(grid0[1])
    /\ Knots(grid0) = MaxG

\* ---------------------------------------------------------------------- C6
\* entry c of the order-m level divides by a zero knot difference
DividesByZero(t, m, c) == m >= 1 /\ (Denom1(t, m, c) = Zero \/ Denom2(t, m, c) = Zero)

\* C6: degenerate-grid safety.  For a grid with a repeated knot, what every
\* level of the recursion (orders 0..k) returns holds no NaN and no infinity,
\* and every entry whose Cox-de Boor step divided by zero is exactly 0.
C6_DegenerateSafe ==
    (call.op = "B_batch" /\ ~call.err /\ Repeated(call.grid[1])) =>
        \A m \in 0..k :
            LET lvl == call.levels[m + 1][1][1]
            IN  \A c \in 1..Len(lvl) :
                    /\ IsFinite(lvl[c])
                    /\ DividesByZero(call.grid[1], m, c) => lvl[c] = Zero

C6_Witness ==
    /\ BasisReturned
    /\ Repeated(call.grid[1])
    /\ k = MaxK
    /\ \E c \in 1..Len(call.ret[1][1]) : call.ret[1][1][c] # Zero
    /\ \E c \in 1..Len(call.levels[k][1][1]) : DividesByZero(call.grid[1], k - 1, c)

\* ------------------------------------------------------------ pipeline
\* the basis functions of one knot row t at one sample v, order m
Basis(v, t, m) == B_batch(<<<<v>>>>, <<t>>, m).val[1][1]

\* the coefficient tensor fits the grid and the samples: one row per spline of
\* x and of the grid, as many entries as B_batch returns basis functions
CoefFits(coef) ==
    /\ Dim1(coef) = Dim2(x)
    /\ Dim1(grid) = Dim2(x)
    /\ Dim3(coef) = n_basis(Knots(grid), k)
    /\ Dim3(coef) >= 1

\* the (batch, C) design matrix of every spline has full column rank
FullColumnRank ==
    LET b == B_batch(x, grid, k).val
    IN  \A j \in 1..Dim2(b) :
            GaussSolve(AsSeq([i \in 1..Dim1(b) |-> b[i][j] \o <<Zero>>]), Dim3(b)).rank

\* a curve2coef call on the curve coef2curve returned for a coefficient tensor
\* that fits, with N >= C samples and a design matrix of full column rank
RoundTripCase ==
    /\ call.op = "curve2coef"
    /\ src.op = "coef2curve"
    /\ CoefFits(src.coef)
    /\ Dim1(x) >= Dim3(src.coef)
    /\ FullColumnRank

\* ---------------------------------------------------------------------- C3
\* C3: round trip.  For every order k, when N >= C and the design matrix has
\* full column rank, curve2coef accepts what coef2curve returned and returns
\* the coefficients coef2curve was given, same shape and same values.
C3_RoundTrip ==
    RoundTripCase => (~call.err /\ call.ret = src.coef)

\* C3, orders k >= 1 only: the round trip returns the coefficients.
C3_RoundTripFromOrder1 ==
    (RoundTripCase /\ k >= 1) => (~call.err /\ call.ret = src.coef)

\* C3, order 0: curve2coef raises on the bool basis matrix.
C3_Order0Raises ==
    (RoundTripCase /\ k = 0) => (call.err /\ call.ret = <<>>)

C3_Witness ==
    /\ RoundTripCase
    /\ k = 0
    /\ call.err
    /\ Dim1(x) = MaxBatch
    /\ Dim2(x) = MaxS

C3_WitnessFromOrder1 ==
    /\ RoundTripCase
    /\ k >= 1
    /\ ~call.err
    /\ Dim1(x) = MaxBatch
    /\ Dim3(src.coef) = 2
    /\ Dim2(x) = MaxS
    /\ Dim2(src.coef) = MaxOut

\* ---------------------------------------------------------------------- C7
\* the three pairs of axes coef2curve lines up
SplineAxes == BSize(Dim2(x), Dim1(call.grid))

AxesBroadcastable ==
    /\ Broadcastable(Dim2(x), Dim1(call.grid))
    /\ Broadcastable(SplineAxes, Dim1(call.coef))
    /\ Broadcastable(n_basis(Knots(call.grid), k), Dim3(call.coef))

\* C7: coef2curve fails, and returns nothing, whenever coef's basis-count axis
\* differs from the number of basis functions of (grid, k) or coef's spline
\* axis differs from the grid's spline count, size 1 included.
C7_FailsOnMismatch ==
    (/\ call.op = "coef2curve"
     /\ \/ Dim3(call.coef) # n_basis(Knots(call.grid), k)
        \/ Dim1(call.coef) # Dim1(call.grid))
        => (call.err /\ call.ret = <<>>)

\* C7, what the code does: coef2curve fails exactly when two axes it lines up
\* have different sizes neither of which is 1 (or, for k = 0, on the dtypes).
C7_FailsUnlessBroadcastable ==
    call.op = "coef2curve" =>
        /\ ~AxesBroadcastable => (call.err /\ call.ret = <<>>)
        /\ (AxesBroadcastable /\ k >= 1) => ~call.err

C7_Witness ==
    /\ call.op = "coef2curve"
    /\ ~call.err
    /\ k >= 1
    /\ Dim1(call.grid) = MaxS
    /\ Dim1(call.coef) = 1
    /\ n_basis(Knots(call.grid), k) = 2
    /\ Dim3(call.coef) = 1
    /\ Dim2(call.ret) = MaxS

C7_WitnessRaises ==
    /\ call.op = "coef2curve"
    /\ call.err
    /\ k >= 1
    /\ Dim1(call.grid) = Dim1(call.coef)
    /\ Dim2(x) = Dim1(call.grid)
    /\ n_basis(Knots(call.grid), k) = 2
    /\ Dim3(call.coef) = 3

\* ---------------------------------------------------------------------- C8
\* the sum over c of basis[c] * coef_row[c]
Dot(basis, coef_row) ==
    FSum([c \in 1..Len(coef_row) |-> FMul(basis[c], coef_row[c])], Len(coef_row))

Returned == call.op # "none" /\ ~call.err

C9_InputsUnchanged ==
    [][/\ x' = x
       /\ grid0' = grid0
       /\ call'.op # "extend_grid" => grid' = grid
       /\ call'.op = "extend_grid" => call'.grid = grid]_vars

\* --------------------------------------------------------------------- C10
\* C10: curve2coef solves with 'gelsy' whenever the basis matrix is on the
\* CPU, and with 'gels' only when it is on another device.
C10_DriverByDevice ==
    call.op = "curve2coef" =>
        /\ call.device = "cpu" => call.driver = "gelsy"
        /\ call.driver = "gels" => call.device # "cpu"

\* C10, what the code does: the driver is 'gels' on every device.
C10_AlwaysGels ==
    call.op = "curve2coef" => call.driver = "gels"

C10_Witness ==
    /\ call.op = "curve2coef"
    /\ call.device = "cpu"
    /\ call.driver = "gels"
    /\ ~call.err
    /\ call.ret = src.coef

====
